---- MODULE Spec2Model ----
(***************************************************************************)
(* The 3D product viewer: InteractionHandler (src/js/interaction.js),      *)
(* Chair (src/js/createProduct.js), CameraController and initScene         *)
(* (src/unnamed), startup, the toggles and the frame loop (src/js/main.js).*)
(*                                                                         *)
(* Spec and FairSpec are the pointer events, the timers and the chair's    *)
(* styling once startup has succeeded; PanelSpec is the same on a page     *)
(* that may lack panel elements; StartSpec begins before init(); CamSpec   *)
(* is auto-rotation against OrbitControls; FnSpec is single calls of       *)
(* functions.  Each keeps the variables of the others at their values      *)
(* after startup.                                                          *)
(*                                                                         *)
(* Time is in milliseconds.  Scales are in percent (1.05 is 105).  A       *)
(* pointer event carries the distance-ordered list of parts the raycaster  *)
(* intersects at its coordinates; the handler reads the coordinates and    *)
(* casts the ray in one go, so the list stands for updateMousePosition     *)
(* and intersectObjects together.  Strings shown in the panel are          *)
(* sequences of one-character strings.  The floating of the chair group    *)
(* (animationTime) feeds no styling and is left out, as are the camera's   *)
(* height and the rotation speed: the controller's update is one step of   *)
(* an eighth of a turn.                                                    *)
(***************************************************************************)
EXTENDS Integers, Sequences, FiniteSets, TLC

(* ------------------------------ bounds -------------------------------- *)
NumParts == 2        \* how many parts of the registry the model builds
MaxHits == 2         \* longest intersection list of one pointer event
MaxClicks == 3       \* click events in one behaviour, all before InputEnd
MaxTicks == 4        \* clock ticks during which the clock runs freely
StartTime == 1000    \* Date.now() when the page is loaded

(* ------------------------- program constants --------------------------- *)
clickDelay == 200
deselectDelay == 500
autoHideDelay == 5000
HoverColor == 5164484        \* 0x4ecdc4
ClickColor == 16739179       \* 0xff6b6b
BaseScale == 100
HoverScale == 105
ClickScale == 110
loadDelay == 1000            \* the loading screen is hidden this long after init
minRadius == 2               \* CameraController.setRadius
maxRadius == 20
defaultRadius == 8           \* CameraController.radius before initializePosition
minDistance == 3             \* OrbitControls
maxDistance == 15

TickStep == clickDelay \div 2   \* ms of one clock tick: both sides of the debounce window

null == "null"

\* Chair.createChairComponents: the registry in creation order.
AllParts ==
    << "seat", "backrest", "front-left-leg", "front-right-leg", "back-left-leg",
       "back-right-leg", "left-armrest", "right-armrest", "left-support",
       "right-support" >>

Parts == { AllParts[i] : i \in 1..NumParts }

\* Chair.createPart: userData.originalColor of each part.
originalColor(name) ==
    CASE name \in {"seat", "left-armrest", "right-armrest"} -> 9127187   \* 0x8b4513
      [] name = "backrest" -> 10506797                                   \* 0xa0522d
      [] OTHER -> 6636321                                                \* 0x654321

\* The characters of a part name.
Chars(name) ==
    CASE name = "seat" -> << "s","e","a","t" >>
      [] name = "backrest" -> << "b","a","c","k","r","e","s","t" >>
      [] name = "front-left-leg" ->
            << "f","r","o","n","t","-","l","e","f","t","-","l","e","g" >>
      [] name = "front-right-leg" ->
            << "f","r","o","n","t","-","r","i","g","h","t","-","l","e","g" >>
      [] name = "back-left-leg" ->
            << "b","a","c","k","-","l","e","f","t","-","l","e","g" >>
      [] name = "back-right-leg" ->
            << "b","a","c","k","-","r","i","g","h","t","-","l","e","g" >>
      [] name = "left-armrest" ->
            << "l","e","f","t","-","a","r","m","r","e","s","t" >>
      [] name = "right-armrest" ->
            << "r","i","g","h","t","-","a","r","m","r","e","s","t" >>
      [] name = "left-support" ->
            << "l","e","f","t","-","s","u","p","p","o","r","t" >>
      [] name = "right-support" ->
            << "r","i","g","h","t","-","s","u","p","p","o","r","t" >>
      [] name = "cushion" -> << "c","u","s","h","i","o","n" >>
      [] name = "head-rest" -> << "h","e","a","d","-","r","e","s","t" >>
      [] name = "constructor" ->
            << "c","o","n","s","t","r","u","c","t","o","r" >>
      [] name = "toString" -> << "t","o","S","t","r","i","n","g" >>
      [] name = "" -> << >>
      [] OTHER -> << "?" >>

\* String.prototype.toUpperCase on one character.
toUpperCase(c) ==
    CASE c = "a" -> "A" [] c = "b" -> "B" [] c = "c" -> "C" [] c = "d" -> "D"
      [] c = "e" -> "E"
      [] c = "f" -> "F" [] c = "g" -> "G" [] c = "h" -> "H" [] c = "i" -> "I"
      [] c = "k" -> "K" [] c = "l" -> "L" [] c = "m" -> "M" [] c = "n" -> "N"
      [] c = "o" -> "O" [] c = "p" -> "P" [] c = "r" -> "R" [] c = "s" -> "S"
      [] c = "t" -> "T" [] c = "u" -> "U"
      [] OTHER -> c

\* String.prototype.split("-"): the words between the hyphens.
RECURSIVE split(_)
split(s) ==
    IF \A i \in 1..Len(s) : s[i] # "-"
    THEN << s >>
    ELSE LET i == CHOOSE k \in 1..Len(s) :
                      s[k] = "-" /\ \A j \in 1..(k - 1) : s[j] # "-"
         IN  << SubSeq(s, 1, i - 1) >> \o split(SubSeq(s, i + 1, Len(s)))

\* word.charAt(0).toUpperCase() + word.slice(1)
capitalize(word) ==
    IF Len(word) = 0 THEN word
    ELSE << toUpperCase(word[1]) >> \o SubSeq(word, 2, Len(word))

\* Array.prototype.join(" ")
RECURSIVE join(_)
join(words) ==
    IF Len(words) = 0 THEN << >>
    ELSE IF Len(words) = 1 THEN words[1]
    ELSE words[1] \o << " " >> \o join(Tail(words))

\* InteractionHandler.formatPartName
formatPartName(partName) ==
    join([ i \in 1..Len(split(Chars(partName))) |->
               capitalize(split(Chars(partName))[i]) ])

\* What the members every object literal inherits from Object.prototype turn
\* into when assigned to textContent.
inherited(partName) ==
    CASE partName = "constructor" -> "function Object() { [native code] }"
      [] partName = "toString" -> "function toString() { [native code] }"

\* The names an object literal inherits a member for.
ObjectPrototype == { "constructor", "toString" }

\* InteractionHandler.partDescriptions[partName] || "Chair component": the
\* description of the key, else an inherited member, else the fallback.
partDescriptions(partName) ==
    CASE partName = "seat" -> "The main seating surface - crafted from solid wood"
      [] partName = "backrest" -> "Ergonomic backrest for comfortable support"
      [] partName = "front-left-leg" ->
            "Front left support leg - sturdy cylindrical design"
      [] partName = "front-right-leg" ->
            "Front right support leg - sturdy cylindrical design"
      [] partName = "back-left-leg" ->
            "Back left support leg - sturdy cylindrical design"
      [] partName = "back-right-leg" ->
            "Back right support leg - sturdy cylindrical design"
      [] partName = "left-armrest" -> "Left armrest for comfortable arm positioning"
      [] partName = "right-armrest" -> "Right armrest for comfortable arm positioning"
      [] partName = "left-support" -> "Left armrest support column"
      [] partName = "right-support" -> "Right armrest support column"
      [] partName \in ObjectPrototype -> inherited(partName)
      [] OTHER -> "Chair component"

\* The ids of the other elements the program looks up in the page.
PageIds == { "canvas-container", "loadingScreen", "autoRotateToggle" }

\* The listeners setupEventListeners registers.
Listeners == { "change", "resize", "click", "mousemove" }

\* The ids of the panel's elements in the page.
PanelElements == { "interactionPanel", "partTitle", "partDescription" }


(* ------------------------------- state --------------------------------- *)
VARIABLES
    now,              \* Date.now()
    lastClickTime,    \* InteractionHandler.lastClickTime
    hoveredPart,      \* Chair.hoveredPart
    clickedPart,      \* Chair.clickedPart
    deselectTimers,   \* due times of the pending setClickedPart timeouts
    hideTimers,       \* due times of the pending showInteractionPanel timeouts
    cursor,           \* domElement.style.cursor
    bodyCursor,       \* document.body.style.cursor
    elements,         \* ids of the panel elements present in the page
    panelDisplay,     \* panel.style.display
    panelShow,        \* panel.classList contains "panel-show"
    partTitle,        \* title.textContent
    partDescription,  \* description.textContent
    sounds,           \* calls of playClickSound
    style,            \* per part: material color and scale
    rendered,         \* per part: color and scale drawn by the latest render
    \* history of the inputs, read by the properties only
    clicks,           \* click events delivered so far
    lastClick,        \* the latest click event: did it hit a part, was it accepted
    lastMove,         \* the nearest part under the latest mousemove event, if any
    selPart,          \* part hit by the latest accepted click that hit a part
    selTime,          \* time of that click
    prevSel,          \* the part selected just before that click
    prevTime,         \* time of the accepted part click before that one
    shownAt,          \* time of the latest showing no empty click has hidden, or 0
    lastFrame,        \* hoveredPart and clickedPart when the latest frame ran
    acceptedAt        \* time of the latest click that came clickDelay or more
                      \* after the one before it in this sense, or 0

codeVars ==
    << now, lastClickTime, hoveredPart, clickedPart, deselectTimers,
       hideTimers, cursor, bodyCursor, elements, panelDisplay, panelShow,
       partTitle, partDescription, sounds, style, rendered >>

histVars ==
    << clicks, lastClick, lastMove, selPart, selTime, prevSel, prevTime, shownAt,
       lastFrame, acceptedAt >>

\* One call of a function on its own: which function, its input, its result.
VARIABLES op, arg, res

fnVars == << op, arg, res >>

VARIABLES
    autoRotate,       \* app.autoRotate
    enableRotate,     \* app.controls.enableRotate
    checked,          \* the autoRotateToggle checkbox's checked
    camera,           \* camera.position, x and z as signed doubled squares
    angle,            \* CameraController.angle, in eighths of a turn
    radiusSq,         \* CameraController.radius, squared
    \* history, read by the properties only
    stale,            \* auto-rotate was switched on with the controller not
                      \* matching the camera, and not re-synchronised since
    lastUpdate        \* the latest frame: did the controller's update run, and
                      \* autoRotate and stale when the frame began

camVars ==
    << autoRotate, enableRotate, checked, camera, angle, radiusSq, stale,
       lastUpdate >>

VARIABLES
    page,             \* ids of the other elements present in the page
    webgl,            \* can a WebGLRenderer be created
    phase,            \* "loading" until init() has run, then "running" or "failed"
    attached,         \* renderer.domElement is in the canvas container
    listeners,        \* the event listeners setupEventListeners has registered
    loadingScreen,    \* what the loading screen shows
    loadTimers,       \* due times of the pending timeouts that hide it
    looping,          \* animate has been called: a frame is requested
    drawn             \* some frame was rendered

\* All of them but drawn.
startRest ==
    << page, webgl, phase, attached, listeners, loadingScreen, loadTimers, looping >>

startVars == << startRest, drawn >>

extVars == << fnVars, camVars, startVars >>

vars == << codeVars, histVars, extVars >>

\* The intersection lists a pointer event can have: distinct parts, nearest first.
Hits ==
    { h \in UNION { [1..n -> Parts] : n \in 0..MaxHits } :
          \A i, j \in 1..Len(h) : i # j => h[i] # h[j] }

\* No mousemove event yet.
None == "none"

InputEnd == StartTime + MaxTicks * TickStep

Min(S) == CHOOSE x \in S : \A y \in S : x <= y

(* ----------------------------- Chair ----------------------------------- *)

\* Chair.update, the body of the forEach for one part: reset, hover, click.
updatePart_hoverLast(name) ==
    LET reset == [color |-> originalColor(name), scale |-> BaseScale]
        click == IF clickedPart = name
                 THEN [color |-> ClickColor, scale |-> ClickScale]
                 ELSE reset
    IN  IF hoveredPart = name
        THEN [color |-> HoverColor, scale |-> HoverScale]
        ELSE click

updatePart_noReset(name) ==
    LET hover == IF hoveredPart = name
                 THEN [color |-> HoverColor, scale |-> HoverScale]
                 ELSE style[name]
    IN  IF clickedPart = name
        THEN [color |-> ClickColor, scale |-> ClickScale]
        ELSE hover

updatePart(name) ==
    LET reset == [color |-> originalColor(name), scale |-> BaseScale]
        hover == IF hoveredPart = name
                 THEN [color |-> HoverColor, scale |-> HoverScale]
                 ELSE reset
    IN  IF clickedPart = name
        THEN [color |-> ClickColor, scale |-> ClickScale]
        ELSE hover

\* Chair.update: the visual state of every part.
update == [ name \in Parts |-> updatePart(name) ]

setHoveredPart_keepOnMiss(partName) ==
    /\ hoveredPart' = IF partName = null THEN hoveredPart ELSE partName
    /\ bodyCursor' = IF partName # null THEN "pointer" ELSE "default"

\* Chair.setHoveredPart
setHoveredPart(partName) ==
    /\ hoveredPart' = partName
    /\ bodyCursor' = IF partName # null THEN "pointer" ELSE "default"

setClickedPart_noTimer(partName) ==
    /\ clickedPart' = partName
    /\ UNCHANGED deselectTimers

\* Chair.setClickedPart: select, and schedule the reset 500 ms later.
setClickedPart(partName) ==
    /\ clickedPart' = partName
    /\ deselectTimers' = IF partName # null
                         THEN deselectTimers \cup { now + deselectDelay }
                         ELSE deselectTimers

\* Chair.getAllParts
getAllParts == Parts

(* ------------------------ InteractionHandler --------------------------- *)

\* Raycaster.intersectObjects: of the objects the ray crosses, nearest first,
\* those that are in the list it is given.
intersectObjects(ray, objects) ==
    SelectSeq(ray, LAMBDA p : p \in objects)

hitTest_farthest(ray, parts) ==
    LET intersects == intersectObjects(ray, parts)
    IN  IF Len(intersects) > 0 THEN intersects[Len(intersects)] ELSE null

\* InteractionHandler.getIntersectedObject for a given list of parts.
hitTest(ray, parts) ==
    LET intersects == intersectObjects(ray, parts)
    IN  IF Len(intersects) > 0 THEN intersects[1] ELSE null

\* InteractionHandler.getIntersectedObject: the nearest hit among the parts.
getIntersectedObject(intersects) == hitTest(intersects, getAllParts)

\* InteractionHandler.hideInteractionPanel
hideInteractionPanel ==
    /\ IF "interactionPanel" \in elements
       THEN panelDisplay' = "none" /\ panelShow' = FALSE
       ELSE UNCHANGED << panelDisplay, panelShow >>
    /\ UNCHANGED << partTitle, partDescription >>

showInteractionPanel_noGuard(partName) ==
    /\ partTitle' = formatPartName(partName)
    /\ partDescription' = partDescriptions(partName)
    /\ panelDisplay' = "block"
    /\ panelShow' = TRUE
    /\ hideTimers' = hideTimers \cup { now + autoHideDelay }

\* InteractionHandler.showInteractionPanel
showInteractionPanel(partName) ==
    IF ~ (PanelElements \subseteq elements)
    THEN UNCHANGED << partTitle, partDescription, panelDisplay, panelShow, hideTimers >>
    ELSE /\ partTitle' = formatPartName(partName)
         /\ partDescription' = partDescriptions(partName)
         /\ panelDisplay' = "block"
         /\ panelShow' = TRUE
         /\ hideTimers' = hideTimers \cup { now + autoHideDelay }

\* InteractionHandler.playClickSound
playClickSound == sounds' = sounds + 1

\* InteractionHandler.handleMouseMove
handleMouseMove(intersects) ==
    /\ LET intersectedObject == getIntersectedObject(intersects)
       IN  IF intersectedObject # null
           THEN setHoveredPart(intersectedObject) /\ cursor' = "pointer"
           ELSE setHoveredPart(null) /\ cursor' = "default"
    /\ UNCHANGED << now, lastClickTime, clickedPart, deselectTimers, hideTimers,
                    elements, panelDisplay, panelShow, partTitle, partDescription,
                    sounds, style, rendered >>

handleClick_noDebounce(intersects) ==
    /\ lastClickTime' = now
    /\ LET intersectedObject == getIntersectedObject(intersects)
       IN  IF intersectedObject # null
           THEN /\ setClickedPart(intersectedObject)
                /\ showInteractionPanel(intersectedObject)
                /\ playClickSound
           ELSE /\ hideInteractionPanel
                /\ UNCHANGED << clickedPart, deselectTimers, hideTimers, sounds >>
    /\ UNCHANGED << now, hoveredPart, cursor, bodyCursor, elements, style, rendered >>

handleClick_deselectOnMiss(intersects) ==
    IF now - lastClickTime < clickDelay
    THEN UNCHANGED codeVars
    ELSE /\ lastClickTime' = now
              /\ LET intersectedObject == getIntersectedObject(intersects)
            IN  IF intersectedObject # null
                THEN /\ setClickedPart(intersectedObject)
                     /\ showInteractionPanel(intersectedObject)
                     /\ playClickSound
                ELSE /\ hideInteractionPanel
                     /\ setClickedPart(null)
                     /\ UNCHANGED << hideTimers, sounds >>
         /\ UNCHANGED << now, hoveredPart, cursor, bodyCursor, elements, style,
                         rendered >>

handleClick_stampIgnored(intersects) ==
    IF now - lastClickTime < clickDelay
    THEN /\ lastClickTime' = now
         /\ UNCHANGED << now, hoveredPart, clickedPart, deselectTimers, hideTimers,
                         cursor, bodyCursor, elements, panelDisplay, panelShow,
                         partTitle, partDescription, sounds, style, rendered >>
    ELSE /\ lastClickTime' = now
         /\ LET intersectedObject == getIntersectedObject(intersects)
            IN  IF intersectedObject # null
                THEN /\ setClickedPart(intersectedObject)
                     /\ showInteractionPanel(intersectedObject)
                     /\ playClickSound
                ELSE /\ hideInteractionPanel
                     /\ UNCHANGED << clickedPart, deselectTimers, hideTimers, sounds >>
         /\ UNCHANGED << now, hoveredPart, cursor, bodyCursor, elements, style,
                         rendered >>

\* InteractionHandler.handleClick
handleClick(intersects) ==
    IF now - lastClickTime < clickDelay
    THEN UNCHANGED codeVars
    ELSE /\ lastClickTime' = now
              /\ LET intersectedObject == getIntersectedObject(intersects)
            IN  IF intersectedObject # null
                THEN /\ setClickedPart(intersectedObject)
                     /\ showInteractionPanel(intersectedObject)
                     /\ playClickSound
                ELSE /\ hideInteractionPanel
                     /\ UNCHANGED << clickedPart, deselectTimers, hideTimers, sounds >>
         /\ UNCHANGED << now, hoveredPart, cursor, bodyCursor, elements, style,
                         rendered >>

(* ------------------------- CameraController ---------------------------- *)

\* Angles are counted in eighths of a turn, modulo a full turn.  A coordinate c
\* at such an angle is kept as sign(c) * 2 * c^2, an integer whenever the
\* squared distance from the axis is one.
Turn == 8

Abs(n) == IF n < 0 THEN -n ELSE n

Sq(n) == n * n

Max(a, b) == IF a > b THEN a ELSE b

\* Math.cos(angle) * radius
cos(a, rSq) ==
    CASE a % Turn \in {0} -> 2 * rSq
      [] a % Turn \in {1, 7} -> rSq
      [] a % Turn \in {2, 6} -> 0
      [] a % Turn \in {3, 5} -> -rSq
      [] a % Turn \in {4} -> -2 * rSq

\* Math.sin(angle) * radius
sin(a, rSq) == cos(a + Turn - 2, rSq)

\* Math.atan2(z, x)
atan2(z, x) ==
    CASE z = 0 /\ x >= 0 -> 0
      [] z > 0 /\ x > 0 -> 1
      [] z > 0 /\ x = 0 -> 2
      [] z > 0 /\ x < 0 -> 3
      [] z = 0 /\ x < 0 -> 4
      [] z < 0 /\ x < 0 -> 5
      [] z < 0 /\ x = 0 -> 6
      [] z < 0 /\ x > 0 -> 7

\* x * x + z * z
hypotSq(position) == (Abs(position.x) + Abs(position.z)) \div 2

\* The camera at an angle around the vertical axis, rSq from it (squared).
At(a, rSq) == [ x |-> cos(a, rSq), z |-> sin(a, rSq) ]

\* camera.position.set(5, 3, 5)
initialPosition == [ x |-> 2 * Sq(5), z |-> 2 * Sq(5) ]

\* CameraController.initializePosition: angle and radius of a camera position.
initializePosition(position) ==
    [ angle |-> atan2(position.z, position.x), radiusSq |-> hypotSq(position) ]

\* CameraController.reset
reset ==
    /\ angle' = initializePosition(camera).angle
    /\ radiusSq' = initializePosition(camera).radiusSq

\* CameraController.update: one step round the orbit.
CameraController_update ==
    /\ angle' = (angle + 1) % Turn
    /\ camera' = At(angle', radiusSq)
    /\ UNCHANGED radiusSq

setRadius_noClamp(radius) ==
    radiusSq' = Sq(radius)

\* CameraController.setRadius
setRadius(radius) ==
    radiusSq' = Sq(Max(minRadius, Min({ maxRadius, radius })))

(* ------------------------------ main ----------------------------------- *)

animate_renderFirst == [ style |-> update, rendered |-> style ]

\* animate: chair.update(), then renderer.render(scene, camera).
animate == [ style |-> update, rendered |-> update ]

(* ------------------------------ actions -------------------------------- *)

\* The state once init() has returned: the chair is built, nothing is hovered or
\* selected, no click was accepted yet, and the first frame has been drawn.
\* The page decides whether the panel starts with an inline display of "none".
InitWith(present) ==
    /\ now = StartTime
    /\ lastClickTime = 0
    /\ hoveredPart = null
    /\ clickedPart = null
    /\ deselectTimers = {}
    /\ hideTimers = {}
    /\ cursor = ""
    /\ bodyCursor = ""
    /\ elements = present
    /\ panelDisplay \in { "", "none" }
    /\ panelShow = FALSE
    /\ partTitle = << >>
    /\ partDescription = ""
    /\ sounds = 0
    /\ style = [ name \in Parts |-> [color |-> originalColor(name), scale |-> BaseScale] ]
    /\ rendered = style
    /\ clicks = 0
    /\ lastClick = [hit |-> FALSE, accepted |-> FALSE]
    /\ lastMove = None
    /\ selPart = null
    /\ selTime = 0
    /\ prevSel = null
    /\ prevTime = 0
    /\ shownAt = 0
    /\ lastFrame = [hovered |-> null, clicked |-> null]
    /\ acceptedAt = 0

\* init() has run without an error, its first frame is drawn, and the loading
\* screen has gone.
Started ==
    /\ page = PageIds /\ webgl = TRUE
    /\ phase = "running"
    /\ attached = TRUE
    /\ listeners = Listeners
    /\ loadingScreen = "hidden"
    /\ loadTimers = {}
    /\ looping = TRUE
    /\ drawn = TRUE

\* No function is called on its own.
FnIdle == op = None /\ arg = << >> /\ res = << >>

\* initScene and initCameraAnimation: auto-rotate is on, manual rotation is off,
\* the controller starts from the camera's position.
CamInit ==
    /\ autoRotate = TRUE
    /\ enableRotate = FALSE
    /\ camera = initialPosition
    /\ angle = initializePosition(initialPosition).angle
    /\ radiusSq = initializePosition(initialPosition).radiusSq
    /\ stale = FALSE
    /\ lastUpdate = [ ran |-> FALSE, autoRotate |-> TRUE, stale |-> FALSE ]

Init == InitWith(PanelElements) /\ FnIdle /\ CamInit /\ checked = TRUE /\ Started

\* The "mousemove" listener of the canvas.
MouseMove ==
    \E intersects \in Hits :
        /\ handleMouseMove(intersects)
        /\ lastMove' = IF intersects = << >> THEN null ELSE Head(intersects)
        /\ UNCHANGED << clicks, lastClick, selPart, selTime, prevSel, prevTime,
                        shownAt, lastFrame, acceptedAt >>
        /\ UNCHANGED extVars

\* The "click" listener of the canvas.
Click ==
    \E intersects \in Hits :
        /\ clicks < MaxClicks /\ now < InputEnd
        /\ handleClick(intersects)
        /\ clicks' = clicks + 1
        /\ LET accepted == now - lastClickTime >= clickDelay
               hit == Len(intersects) > 0
           IN  /\ lastClick' = [hit |-> hit, accepted |-> accepted]
               /\ IF accepted /\ hit
                  THEN /\ selPart' = intersects[1]
                       /\ selTime' = now
                       /\ prevSel' = clickedPart
                       /\ prevTime' = selTime
                       /\ shownAt' = now
                  ELSE /\ UNCHANGED << selPart, selTime, prevSel, prevTime >>
                       /\ shownAt' = IF accepted THEN 0 ELSE shownAt
        /\ acceptedAt' = IF now - acceptedAt >= clickDelay THEN now ELSE acceptedAt
        /\ UNCHANGED << lastMove, lastFrame >>
        /\ UNCHANGED extVars

\* The callback of a setClickedPart timeout that is due.
FireDeselect ==
    \E due \in deselectTimers :
        /\ due <= now
        /\ clickedPart' = null
        /\ deselectTimers' = deselectTimers \ { due }
        /\ UNCHANGED << now, lastClickTime, hoveredPart, hideTimers, cursor,
                        bodyCursor, elements, panelDisplay, panelShow, partTitle,
                        partDescription, sounds, style, rendered >>
        /\ UNCHANGED histVars
        /\ UNCHANGED extVars

\* The callback of a showInteractionPanel timeout that is due.
FireHide ==
    \E due \in hideTimers :
        /\ due <= now
        /\ hideInteractionPanel
        /\ hideTimers' = hideTimers \ { due }
        /\ UNCHANGED << now, lastClickTime, hoveredPart, clickedPart,
                        deselectTimers, cursor, bodyCursor, elements, sounds, style,
                        rendered >>
        /\ UNCHANGED histVars
        /\ UNCHANGED extVars

\* One requestAnimationFrame callback.
Animate ==
    /\ style' = animate.style
    /\ rendered' = animate.rendered
    /\ lastFrame' = [hovered |-> hoveredPart, clicked |-> clickedPart]
    /\ UNCHANGED << now, lastClickTime, hoveredPart, clickedPart,
                    deselectTimers, hideTimers, cursor, bodyCursor, elements,
                    panelDisplay, panelShow, partTitle, partDescription, sounds >>
    /\ UNCHANGED << clicks, lastClick, lastMove, selPart, selTime, prevSel, prevTime,
                    shownAt, acceptedAt >>
    /\ drawn' = TRUE
    /\ UNCHANGED << fnVars, camVars, startRest >>

\* Time passes.  A timeout runs when it is due, so the clock does not pass a
\* pending timeout; after InputEnd it moves from one due time to the next.
Tick ==
    LET pending == deselectTimers \cup hideTimers \cup loadTimers
    IN  /\ \A due \in pending : due > now
        /\ now < InputEnd \/ pending # {}
        /\ now' = IF now < InputEnd
                  THEN Min(pending \cup { now + TickStep })
                  ELSE Min(pending)
        /\ UNCHANGED << lastClickTime, hoveredPart, clickedPart,
                        deselectTimers, hideTimers, cursor, bodyCursor, elements,
                        panelDisplay, panelShow, partTitle, partDescription, sounds,
                        style, rendered >>
        /\ UNCHANGED histVars
        /\ UNCHANGED extVars

Next ==
    \/ MouseMove
    \/ Click
    \/ FireDeselect
    \/ FireHide
    \/ Animate
    \/ Tick

Spec == Init /\ [][Next]_vars

\* The event loop keeps running: time passes and a due timeout runs, and the
\* frame callback, which requests itself again, runs again.
FairSpec ==
    /\ Spec
    /\ WF_vars(Tick \/ FireDeselect \/ FireHide)
    /\ WF_vars(Animate)

(* ------------------- a page with panel elements missing ---------------- *)

\* The page may lack any of the panel's elements.
PanelInit ==
    /\ \E present \in SUBSET PanelElements : InitWith(present)
    /\ FnIdle /\ CamInit /\ checked = TRUE /\ Started

\* The pointer events and the timers.  The frame loop is left out: it writes
\* style and rendered only, which no handler and no timer reads.
PanelNext ==
    \/ MouseMove
    \/ Click
    \/ FireDeselect
    \/ FireHide
    \/ Tick

PanelSpec == PanelInit /\ [][PanelNext]_vars

(* ------------------------------ startup -------------------------------- *)

\* showErrorMessage: the loading screen's content becomes the error message.
\* Without a loading screen the assignment throws inside the catch block.
showErrorMessage ==
    loadingScreen' = IF "loadingScreen" \in page THEN "error" ELSE loadingScreen

init_timerFirst ==
    /\ loadTimers' = loadTimers \cup { now + loadDelay }
    /\ IF ~ webgl \/ "canvas-container" \notin page
       THEN /\ showErrorMessage
            /\ phase' = "failed"
            /\ UNCHANGED << attached, listeners, looping, drawn >>
       ELSE IF "autoRotateToggle" \notin page
       THEN /\ attached' = TRUE
            /\ showErrorMessage
            /\ phase' = "failed"
            /\ UNCHANGED << listeners, looping, drawn >>
       ELSE /\ attached' = TRUE
            /\ listeners' = Listeners
            /\ looping' = TRUE
            /\ drawn' = TRUE
            /\ phase' = "running"
            /\ UNCHANGED loadingScreen

\* init: initScene throws without WebGL or without the canvas container, before
\* the canvas is attached; setupEventListeners throws without the checkbox,
\* before it registers a listener; either error is caught and shown.  Otherwise
\* the timeout that hides the loading screen is set and animate() draws the
\* first frame.
init ==
    IF ~ webgl \/ "canvas-container" \notin page
    THEN /\ showErrorMessage
         /\ phase' = "failed"
         /\ UNCHANGED << attached, listeners, loadTimers, looping, drawn >>
    ELSE IF "autoRotateToggle" \notin page
    THEN /\ attached' = TRUE
         /\ showErrorMessage
         /\ phase' = "failed"
         /\ UNCHANGED << listeners, loadTimers, looping, drawn >>
    ELSE /\ attached' = TRUE
         /\ listeners' = Listeners
         /\ loadTimers' = loadTimers \cup { now + loadDelay }
         /\ looping' = TRUE
         /\ drawn' = TRUE
         /\ phase' = "running"
         /\ UNCHANGED loadingScreen

\* The page as loaded, before DOMContentLoaded: any of the elements may be
\* missing, and WebGL may be unavailable.
StartInit ==
    /\ InitWith(PanelElements) /\ FnIdle /\ CamInit /\ checked = TRUE
    /\ page \in SUBSET PageIds
    /\ webgl \in BOOLEAN
    /\ phase = "loading"
    /\ attached = FALSE
    /\ listeners = {}
    /\ loadingScreen = "loading"
    /\ loadTimers = {}
    /\ looping = FALSE
    /\ drawn = FALSE

\* The DOMContentLoaded listener.
Startup ==
    /\ phase = "loading"
    /\ init
    /\ UNCHANGED << page, webgl, codeVars, histVars, fnVars, camVars >>

\* The timeout set by init.
FireLoad ==
    \E due \in loadTimers :
        /\ due <= now
        /\ loadTimers' = loadTimers \ { due }
        /\ loadingScreen' = IF "loadingScreen" \in page THEN "hidden"
                                                          ELSE loadingScreen
        /\ UNCHANGED << page, webgl, phase, attached, listeners, looping, drawn >>
        /\ UNCHANGED << codeVars, histVars, fnVars, camVars >>

\* Events reach the listeners that are registered, frames run once the loop has
\* started, and the clock is read from startup on.
StartNext ==
    \/ Startup
    \/ FireLoad
    \/ "mousemove" \in listeners /\ MouseMove
    \/ "click" \in listeners /\ Click
    \/ FireDeselect
    \/ FireHide
    \/ looping /\ Animate
    \/ phase # "loading" /\ Tick

StartSpec == StartInit /\ [][StartNext]_vars

(* ------------------------- camera and controls ------------------------- *)

\* The distances given to debugViewer.setCameraDistance.
Distances == { minRadius - 1, defaultRadius, maxRadius + 1 }

\* Where OrbitControls can leave the camera: a drag turns it round the target
\* at any elevation, between minDistance and maxDistance from the target, so its
\* distance from the vertical axis is anything from 0 (overhead) to maxDistance;
\* panning shifts it, with the target, by any amount.
OrbitRadiiSq == { 0, Sq(minRadius - 1), hypotSq(initialPosition), Sq(maxDistance) }

OrbitPositions == { At(a, rSq) : a \in 0..(Turn - 1), rSq \in OrbitRadiiSq }

\* Does the controller hold the angle and the radius of the camera's position?
Matches == initializePosition(camera) = [ angle |-> angle, radiusSq |-> radiusSq ]

\* The "change" listener of the autoRotateToggle checkbox.
onAutoRotateChange(isChecked) ==
    /\ autoRotate' = isChecked
    /\ enableRotate' = ~ autoRotate'
    /\ IF autoRotate' THEN reset ELSE UNCHANGED << angle, radiusSq >>
    /\ UNCHANGED camera

toggleAutoRotate_keepControls ==
    /\ autoRotate' = ~ autoRotate
    /\ UNCHANGED enableRotate
    /\ checked' = autoRotate'
    /\ UNCHANGED << camera, angle, radiusSq >>

\* debugViewer.toggleAutoRotate
toggleAutoRotate ==
    /\ autoRotate' = ~ autoRotate
    /\ enableRotate' = ~ autoRotate'
    /\ checked' = autoRotate'
    /\ UNCHANGED << camera, angle, radiusSq >>

\* debugViewer.setCameraDistance
setCameraDistance(distance) ==
    /\ setRadius(distance)
    /\ UNCHANGED << autoRotate, enableRotate, checked, camera, angle >>

\* The interaction state, which the camera and the controls never touch.
restVars ==
    << now, lastClickTime, hoveredPart, clickedPart, deselectTimers, hideTimers,
       cursor, bodyCursor, elements, panelDisplay, panelShow, partTitle,
       partDescription, sounds >>

\* The user ticks or unticks the checkbox.
ToggleChange ==
    /\ checked' = ~ checked
    /\ onAutoRotateChange(checked')
    /\ stale' = FALSE
    /\ UNCHANGED << lastUpdate, restVars, style, rendered, histVars, fnVars, startVars >>

DebugToggle ==
    /\ toggleAutoRotate
    /\ stale' = ( autoRotate' /\ ~ Matches )
    /\ UNCHANGED << lastUpdate, restVars, style, rendered, histVars, fnVars, startVars >>

DebugSetDistance ==
    \E distance \in Distances :
        /\ setCameraDistance(distance)
        /\ radiusSq' # radiusSq
        /\ UNCHANGED << stale, lastUpdate, restVars, style, rendered, histVars,
                        fnVars, startVars >>

\* OrbitControls: a drag turns the camera round the target, if rotation is
\* enabled.
Drag ==
    /\ enableRotate
    /\ \E position \in OrbitPositions \ { camera } : camera' = position
    /\ UNCHANGED << autoRotate, enableRotate, checked, angle, radiusSq, stale,
                    lastUpdate, restVars, style, rendered, histVars, fnVars, startVars >>

\* OrbitControls: panning shifts the camera, whether rotation is enabled or not
\* (enablePan is always true).
Pan ==
    /\ \E position \in OrbitPositions \ { camera } : camera' = position
    /\ UNCHANGED << autoRotate, enableRotate, checked, angle, radiusSq, stale,
                    lastUpdate, restVars, style, rendered, histVars, fnVars, startVars >>

\* animate: the controller's update if auto-rotate is on, chair.update(), render.
Frame ==
    /\ IF autoRotate
       THEN CameraController_update
       ELSE UNCHANGED << camera, angle, radiusSq >>
    /\ style' = animate.style
    /\ rendered' = animate.rendered
    /\ lastFrame' = [hovered |-> hoveredPart, clicked |-> clickedPart]
    /\ lastUpdate' = [ ran |-> angle' # angle, autoRotate |-> autoRotate,
                       stale |-> stale ]
    /\ stale' = FALSE
    /\ drawn' = TRUE
    /\ UNCHANGED << autoRotate, enableRotate, checked, restVars, fnVars, startRest >>
    /\ UNCHANGED << clicks, lastClick, lastMove, selPart, selTime, prevSel,
                    prevTime, shownAt, acceptedAt >>

\* The checkbox of the page may start ticked or not.
CamSpecInit ==
    /\ InitWith(PanelElements) /\ FnIdle /\ CamInit /\ Started
    /\ checked \in BOOLEAN

CamNext ==
    \/ ToggleChange
    \/ DebugToggle
    \/ DebugSetDistance
    \/ Drag
    \/ Pan
    \/ Frame

CamSpec == CamSpecInit /\ [][CamNext]_vars

(* ------------------------ functions on their own ----------------------- *)

\* How far below the minimum and above the maximum the radii given to
\* setRadius go.
MaxExcess == 2

\* What a ray can cross: the parts and the ground plane.
Objects == Parts \cup { "ground" }

Rays ==
    { h \in UNION { [1..n -> Objects] : n \in 0..MaxHits } :
          \A i, j \in 1..Len(h) : i # j => h[i] # h[j] }

\* The names of the ten parts, and names no part has.
Names ==
    { AllParts[i] : i \in 1..Len(AllParts) }
        \cup { "cushion", "head-rest", "", "constructor", "toString" }

Radii == (minRadius - MaxExcess)..(maxRadius + MaxExcess)

\* One call, of one function, on one input, in the state after startup.
FnInit ==
    /\ InitWith(PanelElements) /\ CamInit /\ checked = TRUE /\ Started
    /\ res = << >>
    /\ \/ op = "getIntersectedObject" /\ arg \in Rays \X SUBSET Parts
       \/ op = "showInteractionPanel" /\ arg \in { << n >> : n \in Names }
       \/ op = "setRadius" /\ arg \in { << r >> : r \in Radii }

\* getIntersectedObject against a registry holding the parts arg[2].
CallGetIntersectedObject ==
    /\ op = "getIntersectedObject" /\ res = << >>
    /\ res' = << hitTest(arg[1], arg[2]) >>
    /\ UNCHANGED << op, arg, codeVars, histVars, camVars, startVars >>

CallShowInteractionPanel ==
    /\ op = "showInteractionPanel" /\ res = << >>
    /\ showInteractionPanel(arg[1])
    /\ res' = << TRUE >>
    /\ UNCHANGED << now, lastClickTime, hoveredPart, clickedPart, deselectTimers,
                    cursor, bodyCursor, elements, sounds, style, rendered >>
    /\ UNCHANGED << op, arg, histVars, camVars, startVars >>

CallSetRadius ==
    /\ op = "setRadius" /\ res = << >>
    /\ setRadius(arg[1])
    /\ res' = << TRUE >>
    /\ UNCHANGED << autoRotate, enableRotate, checked, camera, angle, stale,
                    lastUpdate >>
    /\ UNCHANGED << op, arg, codeVars, histVars, startVars >>

FnNext ==
    \/ CallGetIntersectedObject
    \/ CallShowInteractionPanel
    \/ CallSetRadius

FnSpec == FnInit /\ [][FnNext]_vars

(* ----------------------------- properties ------------------------------ *)

\* The styling of a part as a function of its two flags and its base colour.
StyleOf(isHovered, isSelected, baseColor) ==
    IF isSelected THEN [color |-> ClickColor, scale |-> ClickScale]
    ELSE IF isHovered THEN [color |-> HoverColor, scale |-> HoverScale]
    ELSE [color |-> baseColor, scale |-> BaseScale]

BaseStyle(name) == [color |-> originalColor(name), scale |-> BaseScale]

\* C1: when an accepted click selects part B less than 500 ms after the
\* accepted click that selected a different part A, and A was still selected,
\* B stays the selected part until 500 ms after B's click: A's timer does not
\* clear it.
C1_NewerSelectionOutlivesOldTimer ==
    ( /\ selPart # null
      /\ prevSel # null
      /\ prevSel # selPart
      /\ selTime - prevTime < deselectDelay
      /\ now < selTime + deselectDelay )
    => clickedPart = selPart

\* C2: a click less than 200 ms after the last accepted click changes nothing:
\* selection, hover, panel visibility and content, pending timers, the recorded
\* click time and the number of click sounds all stay as they were.
C2_IgnoredClickChangesNothing ==
    [][ ( clicks' = clicks + 1 /\ now - lastClickTime < clickDelay )
        => UNCHANGED << clickedPart, hoveredPart, cursor, bodyCursor, panelDisplay,
                        panelShow, partTitle, partDescription, deselectTimers,
                        hideTimers, lastClickTime, sounds >> ]_vars

\* C2 witness: a click on a part was ignored while another click had been
\* accepted before it.
C2_Witness ==
    /\ clicks > 0
    /\ ~ lastClick.accepted
    /\ lastClick.hit
    /\ clicks = 2

\* C3: an accepted click on part A while A is still selected by an earlier
\* accepted click keeps A selected until 500 ms after the later click.
C3_ReclickRestartsDeselect ==
    ( /\ selPart # null
      /\ prevSel = selPart
      /\ selTime - prevTime < deselectDelay
      /\ now < selTime + deselectDelay )
    => clickedPart = selPart

\* C4: from the latest showing of the panel that no empty-space click has
\* hidden since, the panel stays visible until 5000 ms after that showing; no
\* timer of an earlier showing hides it before.
C4_PanelVisibleForItsOwnDelay ==
    ( shownAt > 0 /\ now < shownAt + autoHideDelay ) => panelDisplay = "block"

\* The state every behaviour settles in once the input has stopped: the panel
\* is hidden, nothing is selected and no part carries selection styling; the
\* part selected last is back to its base styling unless the latest frame saw
\* it hovered.
Settled ==
    /\ panelDisplay = "none"
    /\ clickedPart = null
    /\ \A name \in Parts :
           style[name].color # ClickColor /\ style[name].scale # ClickScale
    /\ ( selPart \in Parts /\ lastFrame.hovered # selPart )
           => style[selPart] = BaseStyle(selPart)

\* C5: after an accepted click on a part, once the clicks have stopped and
\* every timer has fired, the system reaches and stays in the settled state.
C5_EventuallySettled == ( selPart # null ) ~> [] Settled

\* C5 witness: 5000 ms after the latest accepted part click, with every timer
\* fired and a frame drawn, the state is settled.
C5_Witness ==
    /\ selPart # null
    /\ now >= selTime + autoHideDelay
    /\ deselectTimers = {} /\ hideTimers = {}
    /\ Settled
    /\ lastFrame.clicked = null

\* C6: the hovered part is the nearest part under the latest pointer move,
\* none when that move hit nothing, whatever clicks, timers and frames came
\* before or after it.
C6_HoverIsLatestMoveHit ==
    lastMove # None => hoveredPart = lastMove

\* C6 witness: a part is hovered while another part, selected by a click, is
\* the selected one and a frame has drawn both.
C6_Witness ==
    /\ lastMove # None
    /\ hoveredPart # null
    /\ clickedPart # null
    /\ clickedPart # hoveredPart
    /\ lastFrame = [hovered |-> hoveredPart, clicked |-> clickedPart]

\* C7: after a frame update that saw the same part hovered and selected, that
\* part has selection styling (0xff6b6b, scale 1.10), not hover styling.
C7_SelectionWinsOverHover ==
    \A name \in Parts :
        ( lastFrame.hovered = name /\ lastFrame.clicked = name )
        => /\ style[name] = [color |-> ClickColor, scale |-> ClickScale]
           /\ style[name].color # HoverColor
           /\ style[name].scale # HoverScale

\* C7 witness: a frame ran while one part was both hovered and selected.
C7_Witness ==
    \E name \in Parts : lastFrame.hovered = name /\ lastFrame.clicked = name

\* C8: after every frame update each part's colour and scale are a function
\* of whether it was hovered, whether it was selected, and its base colour (a
\* part that is neither shows its base colour and scale 1.0), and a frame
\* update with hover and selection unchanged since the last one changes no
\* styling.
C8_StyleIsFunctionOfState ==
    /\ [] ( \A name \in Parts :
              style[name] = StyleOf(lastFrame.hovered = name,
                                    lastFrame.clicked = name,
                                    originalColor(name)) )
    /\ [][ ( lastFrame = [hovered |-> hoveredPart, clicked |-> clickedPart] )
           => style' = style ]_vars

\* C8 witness: a part that an earlier frame drew selected is, after a later
\* frame, back at its base styling.
C8_Witness ==
    /\ selPart \in Parts
    /\ lastFrame.clicked = null
    /\ lastFrame.hovered # selPart
    /\ deselectTimers = {}
    /\ style[selPart] = BaseStyle(selPart)
    /\ sounds > 0

\* C9: an accepted click that hits no part hides the panel at once, leaves
\* the selected and the hovered part as they are and schedules no timer.
C9_EmptyClickOnlyHidesPanel ==
    [][ ( clicks' = clicks + 1 /\ now - lastClickTime >= clickDelay
          /\ ~ lastClick'.hit )
        => ( /\ panelDisplay' = "none"
             /\ panelShow' = FALSE
             /\ UNCHANGED << clickedPart, hoveredPart, deselectTimers, hideTimers >> )
      ]_vars

\* C9 witness: an empty-space click was accepted while a part was selected and
\* its panel timer pending; the part is still selected and the panel hidden.
C9_Witness ==
    /\ clicks > 0
    /\ lastClick.accepted
    /\ ~ lastClick.hit
    /\ clickedPart # null
    /\ hideTimers # {}
    /\ panelDisplay = "none"

\* C10: every rendered frame shows, for all parts at once, the styling of one
\* single (hovered, selected) state: the one the handlers and timer callbacks
\* before that frame's update had left.
C10_FrameShowsOneState ==
    rendered = [ name \in Parts |->
                   StyleOf(lastFrame.hovered = name, lastFrame.clicked = name,
                           originalColor(name)) ]

\* C10 witness: a frame was rendered with one part selected and the other
\* hovered.
C10_Witness ==
    /\ lastFrame.clicked # null
    /\ lastFrame.hovered # null
    /\ lastFrame.hovered # lastFrame.clicked
    /\ rendered[lastFrame.clicked].color = ClickColor
    /\ rendered[lastFrame.hovered].color = HoverColor

\* C11: the hit tester returns the part of the nearest intersection among the
\* listed parts, and none when the ray crosses no listed part, also when the list
\* is empty; the hovered part, the selected part and the panel stay as they were.
C11_HitTestNearestOrNone ==
    ( op = "getIntersectedObject" /\ res # << >> ) =>
        LET ray == arg[1]
            parts == arg[2]
            onParts == { i \in 1..Len(ray) : ray[i] \in parts }
        IN  /\ res[1] = IF onParts = {} THEN null ELSE ray[Min(onParts)]
            /\ hoveredPart = null /\ clickedPart = null
            /\ panelShow = FALSE /\ partTitle = << >> /\ hideTimers = {}

\* The ray crosses two listed parts and the nearer one is returned.
C11_Witness ==
    /\ op = "getIntersectedObject" /\ res # << >>
    /\ Len(arg[1]) = 2 /\ arg[1][1] \in arg[2] /\ arg[1][2] \in arg[2]
    /\ res[1] = arg[1][1]

\* A title is a name with every hyphen turned into a space and every letter
\* that starts a word in upper case.
IsTitleOf(title, name) ==
    /\ Len(title) = Len(name)
    /\ \A i \in 1..Len(name) :
           title[i] = IF name[i] = "-" THEN " "
                      ELSE IF i = 1 \/ name[i - 1] = "-" THEN toUpperCase(name[i])
                      ELSE name[i]

\* The names a description is registered for.
Described == { AllParts[i] : i \in 1..Len(AllParts) }

\* C12: a panel shown for a name has the name's title ("back-right-leg" gives
\* "Back Right Leg"), and as body the description registered for the name, or
\* "Chair component" when none is registered.
C12_TitleAndDescription ==
    ( op = "showInteractionPanel" /\ res # << >> ) =>
        /\ IsTitleOf(partTitle, Chars(arg[1]))
        /\ arg[1] = "back-right-leg" =>
               partTitle = << "B","a","c","k"," ","R","i","g","h","t"," ","L","e","g" >>
        /\ arg[1] \notin Described => partDescription = "Chair component"
        /\ arg[1] = "seat" =>
               partDescription = "The main seating surface - crafted from solid wood"

\* C15: setRadius(r) leaves the radius at the minimum when r is below it, at the
\* maximum when r is above it, and at r otherwise.
C15_SetRadiusClamps ==
    ( op = "setRadius" /\ res # << >> ) =>
        LET r == arg[1]
        IN  radiusSq = IF r < minRadius THEN Sq(minRadius)
                       ELSE IF r > maxRadius THEN Sq(maxRadius)
                       ELSE Sq(r)

\* setRadius was given a radius above the maximum.
C15_Witness ==
    op = "setRadius" /\ res # << >> /\ arg[1] > maxRadius /\ radiusSq = Sq(maxRadius)

\* C18: the debounce window runs from the latest accepted click only.  A click
\* that comes clickDelay or more after the latest accepted click is accepted,
\* whatever ignored clicks came in between, and starts a new window, whether it
\* hit a part or empty space; a click that comes sooner leaves the recorded time
\* alone.
C18_WindowFromLastAccepted ==
    [][ clicks' = clicks + 1 =>
          IF now - acceptedAt >= clickDelay
          THEN /\ lastClickTime' = now
               /\ lastClick'.hit => sounds' = sounds + 1
               /\ ~ lastClick'.hit /\ "interactionPanel" \in elements =>
                      panelDisplay' = "none"
          ELSE lastClickTime' = lastClickTime /\ sounds' = sounds ]_vars

\* Three clicks, the first at StartTime; the second came within the window and
\* was ignored, the third came clickDelay after the first and was accepted.
C18_Witness ==
    /\ clicks = 3
    /\ now = StartTime + clickDelay
    /\ lastClickTime = now
    /\ sounds = 2

\* C16: with the panel container, the title or the description missing, an
\* accepted click on a part changes neither the panel's content nor its
\* visibility and schedules no auto-hide, and the handler carries on (the click
\* sound is played); with the container missing, an accepted click on empty
\* space leaves the panel's visibility alone.
C16_MissingElementIsNoOp ==
    [][ ( clicks' = clicks + 1 /\ lastClick'.accepted ) =>
          /\ ( lastClick'.hit /\ ~ ( PanelElements \subseteq elements ) ) =>
                 /\ UNCHANGED << partTitle, partDescription, panelDisplay,
                                 panelShow, hideTimers >>
                 /\ sounds' = sounds + 1
          /\ ( ~ lastClick'.hit /\ "interactionPanel" \notin elements ) =>
                 /\ UNCHANGED << panelDisplay, panelShow, partTitle,
                                 partDescription, hideTimers >>
                 /\ lastClickTime' = now ]_vars

\* The description element is missing and a click on a part was accepted.
C16_Witness ==
    /\ elements = { "interactionPanel", "partTitle" }
    /\ sounds = 1
    /\ clickedPart # null
    /\ hideTimers = {}

\* C13: after auto-rotation is switched back on, by the checkbox or by
\* debugViewer.toggleAutoRotate, the controller's update does not run before the
\* controller holds the angle and the radius of the camera's position.
C13_ResyncBeforeUpdate ==
    lastUpdate.ran => ~ lastUpdate.stale

\* C14: manual rotation is enabled exactly when auto-rotate is off, and the
\* controller's update runs in a frame only when auto-rotate is on.
C14_AutoXorManual ==
    /\ enableRotate = ~ autoRotate
    /\ lastUpdate.ran => lastUpdate.autoRotate

\* Auto-rotate is off, the camera was dragged, and a frame ran without the
\* controller's update.
C14_Witness ==
    /\ ~ autoRotate /\ enableRotate
    /\ camera # initialPosition
    /\ ~ lastUpdate.ran /\ ~ lastUpdate.autoRotate

\* C19: the controller's radius is within the minimum and the maximum.
C19_RadiusWithinBounds ==
    Sq(minRadius) <= radiusSq /\ radiusSq <= Sq(maxRadius)

\* C17: when initScene fails, for want of the canvas container or of WebGL,
\* startup has failed: the loading screen shows the error message and is never
\* hidden, nothing is attached to the page, no listener is registered, the
\* animation loop is not started and no frame is rendered.
C17_SceneFailureIsFatal ==
    ( phase # "loading" /\ ( ~ webgl \/ "canvas-container" \notin page ) ) =>
        /\ phase = "failed"
        /\ "loadingScreen" \in page => loadingScreen = "error"
        /\ loadingScreen # "hidden"
        /\ loadTimers = {}
        /\ ~ attached
        /\ listeners = {}
        /\ ~ looping
        /\ ~ drawn

\* The canvas container is missing, startup has failed with the error message
\* shown, and time has passed since.
C17_Witness ==
    /\ "canvas-container" \notin page /\ webgl
    /\ phase = "failed"
    /\ loadingScreen = "error"
    /\ now > StartTime

====
